---- MODULE Spec2Model ----
(***************************************************************************)
(* The PluginStateDemo component (src/src/types.ts, class PluginStateDemo) *)
(* as a state machine: the React state of one component instance, its two  *)
(* instance fields, the external PluginState service it calls, the calls   *)
(* in flight, the debounce timer and the clock.                            *)
(*                                                                         *)
(* One action is one run-to-completion piece of JavaScript: an event       *)
(* handler or lifecycle method up to its first suspension at an external   *)
(* promise, or the continuation that runs when such a promise settles.     *)
(* Texts are TLA+ strings, so that String.includes, JSON.stringify(..)     *)
(* .length and template literals are computed as the code computes them.   *)
(***************************************************************************)
EXTENDS Integers, Sequences, FiniteSets, TLC

(***************************************************************************)
(* Bounds of the model.                                                    *)
(***************************************************************************)
\* the clock takes MaxTicks steps of TickStep milliseconds
MaxTicks == 1
\* the user and the timer start at most MaxOps operations in a session
MaxOps == 2
\* the user edits the demo data at most MaxEdits times in a session
MaxEdits == 1
\* the debounce specification: operations, edits and half-delay clock steps
DebounceOps == 1
DebounceEdits == 2
DebounceTicks == 4
\* the lifecycle specification: operations, edits and clock steps
LifecycleOps == 1
LifecycleEdits == 1
LifecycleTicks == 1
\* the log specification: operations, edits and clock steps
LogOps == 3
LogEdits == 1
LogTicks == 1
\* the classifier specification: operations, edits and clock steps
ValidateOps == 1
ValidateEdits == 1
ValidateTicks == 1
\* the event-loop specification: operations, edits and clock steps
EventLoopOps == 1
EventLoopEdits == 2
EventLoopTicks == 1
\* the classifier specification
ClassifyOps == 1
ClassifyEdits == 1
ClassifyTicks == 1
\* Spec keeps the newest LogKeep entries when it appends to the log
\* (SpecLog keeps the LogSlice entries of the source)
LogKeep == 1

(***************************************************************************)
(* Constants of the program.                                               *)
(***************************************************************************)
MaxInputLength == 1000
MinCounter == -1000
MaxCounter == 1000
MaxStateSize == 10240
DebounceDelay == 1000
LogSlice == 19
HookPreview == 100

TickStep == DebounceDelay

(***************************************************************************)
(* JavaScript values.                                                      *)
(***************************************************************************)
\* null / undefined where the other values are records
NULL == [null |-> TRUE]
\* null where the other values are strings (lastSaveTime, lastRestoreTime)
NullTime == "null"

Min(a, b) == IF a < b THEN a ELSE b

\* String.prototype.includes
Includes(s, sub) ==
  \E i \in 1..(Len(s) - Len(sub) + 1) : SubSeq(s, i, i + Len(sub) - 1) = sub

\* String.prototype.substring(0, n)
Substring0(s, n) == SubSeq(s, 1, Min(n, Len(s)))

\* String.prototype.repeat
RECURSIVE Repeat(_, _)
Repeat(s, n) ==
  IF n = 0 THEN ""
  ELSE IF n % 2 = 0 THEN LET h == Repeat(s, n \div 2) IN h \o h
  ELSE s \o Repeat(s, n - 1)

\* Array.prototype.join(', ')
RECURSIVE Join(_)
Join(errors) ==
  IF Len(errors) = 0 THEN ""
  ELSE IF Len(errors) = 1 THEN errors[1]
  ELSE errors[1] \o ", " \o Join(Tail(errors))

Digits == {"0", "1", "2", "3", "4", "5", "6", "7", "8", "9"}

Pad3(n) ==
  IF n < 10 THEN "00" \o ToString(n)
  ELSE IF n < 100 THEN "0" \o ToString(n)
  ELSE ToString(n)

\* new Date().toISOString() at clock value t (milliseconds into the session)
ToISOString(t) ==
  "2024-01-01T00:00:0" \o ToString(t \div 1000) \o "." \o Pad3(t % 1000) \o "Z"

\* new Date().toLocaleTimeString() at clock value t: whole seconds
ToLocaleTimeString(t) == "12:00:0" \o ToString(t \div 1000) \o " AM"

\* the two-digit numerals from lo to hi
TwoDigits(lo, hi) ==
  {IF n < 10 THEN "0" \o ToString(n) ELSE ToString(n) : n \in lo..hi}

\* !isNaN(Date.parse(s)), for the ISO 8601 date-time form
\* YYYY-MM-DDTHH:mm:ss.sssZ (a text of another form does not parse; a day
\* beyond the end of a month shorter than 31 days is not among the texts
\* of the model)
DateParses(s) ==
  /\ Len(s) = 24
  /\ SubSeq(s, 6, 7) \in TwoDigits(1, 12)
  /\ SubSeq(s, 9, 10) \in TwoDigits(1, 31)
  /\ SubSeq(s, 12, 13) \in TwoDigits(0, 23)
  /\ SubSeq(s, 15, 16) \in TwoDigits(0, 59)
  /\ SubSeq(s, 18, 19) \in TwoDigits(0, 59)
  /\ \A i \in 1..24 :
       LET c == SubSeq(s, i, i) IN
         CASE i \in {5, 8}    -> c = "-"
           [] i = 11          -> c = "T"
           [] i \in {14, 17}  -> c = ":"
           [] i = 20          -> c = "."
           [] i = 24          -> c = "Z"
           [] OTHER           -> c \in Digits

(***************************************************************************)
(* JSON.stringify of the objects the component serializes.                 *)
(***************************************************************************)
JSONBool(b) == IF b THEN "true" ELSE "false"

\* JSON.stringify of a DemoData object (texts of the model need no escapes);
\* "blob" is a property beyond the DemoData interface that a stored record
\* may carry
JSONDemoData(d) ==
  "{\"userInput\":\"" \o d.userInput \o "\",\"counter\":" \o ToString(d.counter)
    \o ",\"preferences\":{\"autoSave\":" \o JSONBool(d.preferences.autoSave)
    \o ",\"showDebugInfo\":" \o JSONBool(d.preferences.showDebugInfo)
    \o "},\"timestamp\":\"" \o d.timestamp \o "\""
    \o (IF "blob" \in DOMAIN d THEN ",\"blob\":\"" \o d.blob \o "\"" ELSE "")
    \o "}"

RECURSIVE JoinComma(_)
JoinComma(members) ==
  IF Len(members) = 0 THEN ""
  ELSE IF Len(members) = 1 THEN members[1]
  ELSE members[1] \o "," \o JoinComma(Tail(members))

\* JSON.stringify of a state object: an envelope {demoData, saveCount,
\* restoreCount}, or a stored record that lacks some of these properties
JSONStringify(e) ==
  "{" \o JoinComma(
      (IF "demoData" \in DOMAIN e
         THEN <<"\"demoData\":" \o JSONDemoData(e.demoData)>> ELSE <<>>)
      \o (IF "saveCount" \in DOMAIN e
            THEN <<"\"saveCount\":" \o ToString(e.saveCount)>> ELSE <<>>)
      \o (IF "restoreCount" \in DOMAIN e
            THEN <<"\"restoreCount\":" \o ToString(e.restoreCount)>> ELSE <<>>)
      \o (IF "pluginId" \in DOMAIN e
            THEN <<"\"pluginId\":\"" \o e.pluginId \o "\"">> ELSE <<>>))
    \o "}"

(***************************************************************************)
(* Failure values: what a throw or a rejected promise carries.             *)
(***************************************************************************)
\* new Error(message)
Error(message) ==
  [kind |-> "Error", message |-> message, stack |-> "Error: " \o message]

\* String(error), as a template literal renders a caught value
ErrorToString(error) ==
  IF error.kind = "Error" THEN "Error: " \o error.message
  ELSE IF error.kind = "string" THEN error.text
  ELSE "[object Object]"

\* the values the external service rejects with in this model: an exception,
\* a plain text and a structured object
FetchError == Error("Failed to fetch")
TextFailure == [kind |-> "string", text |-> "network unreachable"]
ObjectFailure ==
  [kind |-> "object", message |-> "quota exceeded",
   json |-> "{\n  \"message\": \"quota exceeded\",\n  \"code\": 507\n}"]
Rejections == {FetchError, TextFailure}

\* what services.pluginState.configure may throw
ConfigureError == Error("Service not available")

(***************************************************************************)
(* The component state (this.state) and the functions that transform it.   *)
(* s is a value of this.state; an operator returns the state after the     *)
(* setState calls of the method it models.                                 *)
(***************************************************************************)
VARIABLES
  state,                    \* this.state
  pluginStateUnsubscribers, \* this.pluginStateUnsubscribers
  autoSaveTimeout,          \* this.autoSaveTimeout: NullTimeout or a handle
  phase,                    \* "constructed", "mounted" or "unmounted"
  services,                 \* props.services: the service the host injected
  now,                      \* the clock, in milliseconds
  timers,                   \* the setTimeout timers pending: [id, due]
  calls,                    \* the external calls in flight
  stored,                   \* the state object the service holds, or NULL
  listeners,                \* the hooks registered with the service
  unsubscribed,             \* how often each unsubscribe handle was invoked
  configurations,           \* the configs the service's configure received
  opCount,                  \* the operations started so far (see MaxOps)
  editCount,                \* the edits made so far (see MaxEdits)
  logKeep,                  \* the entries an append keeps (see LogKeep)
  session,                  \* what the user, the clock and the service do
                            \* in this run at most (see Session)
  history,                  \* when the data was mutated and when the
                            \* timer invoked Save, for the timing claims;
                            \* the data each mutation produced; whether a
                            \* Clear has succeeded with no mutation and no
                            \* press of Save since
  rejected                  \* the promises of saveState, restoreState,
                            \* clearState and componentDidMount that
                            \* rejected towards their caller

vars == <<state, pluginStateUnsubscribers, autoSaveTimeout, phase, services,
          now, timers, calls, stored, listeners, unsubscribed,
          configurations, opCount, editCount, logKeep, session, history,
          rejected>>

\* this.autoSaveTimeout = null; the handles setTimeout returns are positive
NullTimeout == 0

Max(S) == CHOOSE x \in S : \A y \in S : y <= x

\* window.setTimeout(callback, delay) and clearTimeout(handle), on the set
\* ts of pending timers
setTimeout(ts, id, delay) == ts \cup {[id |-> id, due |-> now + delay]}

clearTimeout(ts, handle) == {t \in ts : t.id # handle}

\* the default DemoData of the constructor and of clearState
DefaultDemoData(t) ==
  [userInput |-> "", counter |-> 0,
   preferences |-> [autoSave |-> TRUE, showDebugInfo |-> TRUE],
   timestamp |-> ToISOString(t)]

\* this.state as the constructor leaves it
InitialState(t) ==
  [demoData |-> DefaultDemoData(t),
   isLoading |-> FALSE,
   error |-> "",
   errorInfo |-> NULL,
   isInitializing |-> TRUE,
   isStateConfigured |-> FALSE,
   lastSaveTime |-> NullTime,
   lastRestoreTime |-> NullTime,
   saveCount |-> 0,
   restoreCount |-> 0,
   debugLogs |-> <<>>,
   activeTab |-> "overview",
   showErrorDetails |-> FALSE]

\* this.setState({...}): the named fields are replaced, the others kept
SetState(s, updates) ==
  [k \in DOMAIN s |-> IF k \in DOMAIN updates THEN updates[k] ELSE s[k]]

\* Array.prototype.slice(-n)
SliceLast(log, n) ==
  IF Len(log) <= n THEN log ELSE SubSeq(log, Len(log) - n + 1, Len(log))

LogEntry(t, message) == "[" \o ToLocaleTimeString(t) \o "] " \o message

addDebugLogKeepsOneMore(s, message) ==
  [s EXCEPT !.debugLogs =
     Append(SliceLast(@, logKeep + 1), LogEntry(now, message))]

addDebugLog(s, message) ==
  [s EXCEPT !.debugLogs =
     Append(SliceLast(@, logKeep), LogEntry(now, message))]

CategorizeNetworkFirst(message) ==
  IF Includes(message, "Service not available")
       \/ Includes(message, "not configured") THEN "service"
  ELSE IF Includes(message, "network")
       \/ Includes(message, "fetch") THEN "network"
  ELSE IF Includes(message, "validation")
       \/ Includes(message, "invalid") THEN "validation"
  ELSE "unknown"

\* the category handleError gives an Error by its message
Categorize(message) ==
  IF Includes(message, "Service not available")
       \/ Includes(message, "not configured") THEN "service"
  ELSE IF Includes(message, "validation")
       \/ Includes(message, "invalid") THEN "validation"
  ELSE IF Includes(message, "network")
       \/ Includes(message, "fetch") THEN "network"
  ELSE "unknown"

\* the ErrorInfo handleError builds
ErrorInfoOf(error, operation) ==
  [type |-> IF error.kind = "Error" THEN Categorize(error.message)
            ELSE "unknown",
   message |-> IF error.kind = "Error" THEN error.message
               ELSE IF error.kind = "string" THEN error.text
               ELSE IF error.kind = "object"
                 THEN (IF "message" \in DOMAIN error /\ error.message # ""
                         THEN error.message ELSE "[object Object]")
               ELSE "An unexpected error occurred",
   details |-> IF error.kind = "object" THEN error.json ELSE "",
   timestamp |-> ToISOString(now),
   operation |-> operation,
   stack |-> IF error.kind = "Error" THEN error.stack ELSE ""]

handleErrorKeepsBusy(s, error, operation) ==
  LET errorInfo == ErrorInfoOf(error, operation)
      logged == addDebugLog(s, "ERROR in " \o operation \o ": "
                                 \o errorInfo.message)
  IN  SetState(logged, [error |-> errorInfo.message,
                        errorInfo |-> errorInfo])

handleError(s, error, operation) ==
  LET errorInfo == ErrorInfoOf(error, operation)
      logged == addDebugLog(s, "ERROR in " \o operation \o ": "
                                 \o errorInfo.message)
  IN  SetState(logged, [error |-> errorInfo.message,
                        errorInfo |-> errorInfo,
                        isLoading |-> FALSE])

clearError(s) ==
  addDebugLog(SetState(s, [error |-> "", errorInfo |-> NULL,
                           showErrorDetails |-> FALSE]),
              "Error cleared by user")

toggleErrorDetails(s) ==
  SetState(s, [showErrorDetails |-> ~s.showErrorDetails])

\* validateDemoData(data).errors
ValidationErrors(data) ==
  (IF Len(data.userInput) > MaxInputLength
     THEN <<"User input exceeds maximum length of 1000 characters">>
     ELSE <<>>)
  \o (IF data.counter < MinCounter \/ data.counter > MaxCounter
        THEN <<"Counter value must be between -1000 and 1000">> ELSE <<>>)
  \o (IF data.timestamp = "" \/ ~DateParses(data.timestamp)
        THEN <<"Invalid timestamp format">> ELSE <<>>)

validateDemoDataShortCircuit(data) ==
  [isValid |-> Len(ValidationErrors(data)) = 0,
   errors |-> IF ValidationErrors(data) = <<>> THEN <<>>
              ELSE <<Head(ValidationErrors(data))>>]

validateDemoData(data) ==
  [isValid |-> Len(ValidationErrors(data)) = 0,
   errors |-> ValidationErrors(data)]

(***************************************************************************)
(* saveState, restoreState and clearState, each cut at its await: the part *)
(* that runs when the method is called, and the part that runs when the    *)
(* external promise resolves.  The first yields the new state and what is  *)
(* handed to the service (NULL: the service is not called).                *)
(***************************************************************************)
ClearIfErrorNever(s) == s

\* if (this.state.error || this.state.errorInfo) this.clearError()
ClearIfError(s) ==
  IF s.error # "" \/ s.errorInfo # NULL THEN clearError(s) ELSE s

StateToSaveStaleCount(s) ==
  [demoData |-> s.demoData,
   saveCount |-> s.saveCount,
   restoreCount |-> s.restoreCount]

\* the envelope saveState composes
StateToSave(s) ==
  [demoData |-> s.demoData,
   saveCount |-> s.saveCount + 1,
   restoreCount |-> s.restoreCount]

\* the validation check of saveState: if (!validation.isValid)
ValidationIgnored(validation) == FALSE

ValidationFails(validation) == ~validation.isValid

\* the size check of saveState
ExceedsMaxSizeNever(stateSize) == FALSE

ExceedsMaxSizeOffByOne(stateSize) == stateSize >= MaxStateSize

ExceedsMaxSize(stateSize) == stateSize > MaxStateSize

SizeMessage(stateSize) ==
  "State size (" \o ToString(stateSize)
    \o " bytes) exceeds maximum allowed size (10240 bytes)"

\* saveState up to "await services.pluginState.saveState(stateToSave)"
SaveStart(s, svc) ==
  LET begun == addDebugLog(SetState(ClearIfError(s), [isLoading |-> TRUE]),
                           "Starting state save operation...")
      validation == validateDemoData(s.demoData)
      stateToSave == StateToSave(s)
      stateSize == Len(JSONStringify(stateToSave))
  IN  IF svc = "absent" THEN
        [state |-> handleError(begun,
            Error("PluginState service not available for save operation"),
            "saveState"),
         arg |-> NULL]
      ELSE IF ValidationFails(validation) THEN
        [state |-> handleError(begun,
            Error("Validation failed: " \o Join(validation.errors)),
            "saveState"),
         arg |-> NULL]
      ELSE IF ExceedsMaxSize(stateSize) THEN
        [state |-> handleError(begun, Error(SizeMessage(stateSize)),
                               "saveState"),
         arg |-> NULL]
      ELSE
        [state |-> addDebugLog(begun, "Saving state (" \o ToString(stateSize)
                                        \o " bytes)..."),
         arg |-> stateToSave]

SaveResolvedKeepsBusy(s) ==
  addDebugLog(SetState(s, [lastSaveTime |-> ToLocaleTimeString(now),
                           saveCount |-> s.saveCount + 1]),
              "State saved successfully")

\* saveState after the await resolved
SaveResolved(s) ==
  addDebugLog(SetState(s, [isLoading |-> FALSE,
                           lastSaveTime |-> ToLocaleTimeString(now),
                           saveCount |-> s.saveCount + 1]),
              "State saved successfully")

\* restoreState up to "await services.pluginState.getState()"
RestoreStartStampsFirst(s, svc) ==
  LET begun == addDebugLog(
        SetState(ClearIfError(s),
                 [isLoading |-> TRUE,
                  lastRestoreTime |-> ToLocaleTimeString(now)]),
        "Starting state restore operation...")
  IN  IF svc = "absent" THEN
        [state |-> handleError(begun,
            Error("PluginState service not available for restore operation"),
            "restoreState"),
         called |-> FALSE]
      ELSE [state |-> begun, called |-> TRUE]

RestoreStart(s, svc) ==
  LET begun == addDebugLog(SetState(ClearIfError(s), [isLoading |-> TRUE]),
                           "Starting state restore operation...")
  IN  IF svc = "absent" THEN
        [state |-> handleError(begun,
            Error("PluginState service not available for restore operation"),
            "restoreState"),
         called |-> FALSE]
      ELSE [state |-> begun, called |-> TRUE]

NumberOrIgnoresRecord(rec, f, fallback) == fallback

\* restoredState.f || fallback, for a numeric property f
NumberOr(rec, f, fallback) ==
  IF f \in DOMAIN rec /\ rec[f] # 0 THEN rec[f] ELSE fallback

RestoreResolvedCountsMiss(s, restoredState) ==
  IF restoredState # NULL THEN
    addDebugLog(
      SetState(s, [demoData |-> IF "demoData" \in DOMAIN restoredState
                                  THEN restoredState.demoData ELSE s.demoData,
                   saveCount |-> NumberOr(restoredState, "saveCount", 0),
                   restoreCount |->
                     NumberOr(restoredState, "restoreCount", 0) + 1,
                   lastRestoreTime |-> ToLocaleTimeString(now),
                   isLoading |-> FALSE]),
      "State restored successfully")
  ELSE
    addDebugLog(SetState(s, [restoreCount |-> s.restoreCount + 1,
                             isLoading |-> FALSE]),
                "No saved state found")

RestoreResolvedStampsMiss(s, restoredState) ==
  IF restoredState # NULL THEN
    addDebugLog(
      SetState(s, [demoData |-> IF "demoData" \in DOMAIN restoredState
                                  THEN restoredState.demoData ELSE s.demoData,
                   saveCount |-> NumberOr(restoredState, "saveCount", 0),
                   restoreCount |->
                     NumberOr(restoredState, "restoreCount", 0) + 1,
                   lastRestoreTime |-> ToLocaleTimeString(now),
                   isLoading |-> FALSE]),
      "State restored successfully")
  ELSE
    addDebugLog(SetState(s, [lastRestoreTime |-> ToLocaleTimeString(now),
                             isLoading |-> FALSE]),
                "No saved state found")

\* restoreState after the await resolved to restoredState
RestoreResolved(s, restoredState) ==
  IF restoredState # NULL THEN
    addDebugLog(
      SetState(s, [demoData |-> IF "demoData" \in DOMAIN restoredState
                                  THEN restoredState.demoData ELSE s.demoData,
                   saveCount |-> NumberOr(restoredState, "saveCount", 0),
                   restoreCount |->
                     NumberOr(restoredState, "restoreCount", 0) + 1,
                   lastRestoreTime |-> ToLocaleTimeString(now),
                   isLoading |-> FALSE]),
      "State restored successfully")
  ELSE
    addDebugLog(SetState(s, [isLoading |-> FALSE]), "No saved state found")

ClearStartResetsFirst(s, svc) ==
  LET begun == addDebugLog(
        SetState(clearError(s), [isLoading |-> TRUE, saveCount |-> 0,
                                 restoreCount |-> 0]),
        "Starting state clear operation...")
  IN  IF svc = "absent" THEN
        [state |-> handleError(begun,
            Error("PluginState service not available for clear operation"),
            "clearState"),
         called |-> FALSE]
      ELSE [state |-> begun, called |-> TRUE]

\* clearState up to "await services.pluginState.clearState()"
ClearStart(s, svc) ==
  LET begun == addDebugLog(SetState(clearError(s), [isLoading |-> TRUE]),
                           "Starting state clear operation...")
  IN  IF svc = "absent" THEN
        [state |-> handleError(begun,
            Error("PluginState service not available for clear operation"),
            "clearState"),
         called |-> FALSE]
      ELSE [state |-> begun, called |-> TRUE]

ClearResolvedKeepsSaveTime(s) ==
  addDebugLog(SetState(s, [demoData |-> DefaultDemoData(now),
                           saveCount |-> 0,
                           restoreCount |-> 0,
                           lastRestoreTime |-> NullTime,
                           isLoading |-> FALSE]),
              "State cleared successfully")

\* clearState after the await resolved
ClearResolved(s) ==
  addDebugLog(SetState(s, [demoData |-> DefaultDemoData(now),
                           saveCount |-> 0,
                           restoreCount |-> 0,
                           lastSaveTime |-> NullTime,
                           lastRestoreTime |-> NullTime,
                           isLoading |-> FALSE]),
              "State cleared successfully")

\* the tail of componentDidMount, after "await this.restoreState()"
MountFinished(s) ==
  addDebugLog(SetState(s, [isInitializing |-> FALSE]),
              "Component initialized successfully")

MountFailedStaysInitializing(s, error) ==
  handleError(s, error, "componentDidMount")

\* the catch block of componentDidMount
MountFailed(s, error) ==
  SetState(handleError(s, error, "componentDidMount"),
           [isInitializing |-> FALSE])

\* updateDemoData's setState: the updates merged over the record, and a
\* fresh timestamp
UpdatedDemoDataKeepsTimestamp(data, updates) ==
  [k \in DOMAIN data |->
     IF k \in DOMAIN updates THEN updates[k] ELSE data[k]]

UpdatedDemoData(data, updates) ==
  [k \in DOMAIN data |->
     IF k = "timestamp" THEN ToISOString(now)
     ELSE IF k \in DOMAIN updates THEN updates[k] ELSE data[k]]

(***************************************************************************)
(* The external PluginState service and what it holds at the start.        *)
(***************************************************************************)
Hooks == <<"save", "restore", "clear">>

\* the argument of services.pluginState.configure
PluginStateConfigPersistent ==
  [pluginId |-> "ServiceExample_PluginState",
   stateStrategy |-> "persistent",
   preserveKeys |-> <<"demoData", "saveCount", "restoreCount">>,
   maxStateSize |-> MaxStateSize]

\* the object handed to services.pluginState.configure (the stateSchema,
\* which no operation of the component reads, is left out)
PluginStateConfig ==
  [pluginId |-> "ServiceExample_PluginState",
   stateStrategy |-> "session",
   preserveKeys |-> <<"demoData", "saveCount", "restoreCount">>,
   maxStateSize |-> MaxStateSize]

\* a stored object with none of the three envelope properties
EmptyRecord == [pluginId |-> "ServiceExample_PluginState"]

\* a stored envelope of an earlier writer: counter at its maximum, and a
\* property beyond the interface sized so that the envelope this component
\* saves right after restoring it serializes to exactly MaxStateSize
OldRecordWith(blob) ==
  [demoData |-> [userInput |-> "", counter |-> MaxCounter,
                 preferences |-> [autoSave |-> TRUE, showDebugInfo |-> TRUE],
                 timestamp |-> "2023-12-31T23:59:59.000Z",
                 blob |-> blob],
   saveCount |-> 2,
   restoreCount |-> 3]

OldRecord ==
  OldRecordWith(Repeat("x",
    MaxStateSize - Len(JSONStringify(
      [OldRecordWith("") EXCEPT !.saveCount = @ + 1, !.restoreCount = @ + 1]))))

InitialStores == {NULL, EmptyRecord, OldRecord}

\* the texts typed into the input field
AtMaxText == Repeat("a", MaxInputLength)
TooLongText == Repeat("a", MaxInputLength + 1)
TextInputs == {"", AtMaxText, TooLongText}

MaxNow == MaxTicks * TickStep

(***************************************************************************)
(* The initial state: the component constructed, not yet mounted.          *)
(***************************************************************************)
\* props.services: pluginState is there or not; a service that is there may
\* throw from configure, or from one of the hook registrations
Service(pluginState, configureThrows, failAt) ==
  [pluginState |-> pluginState, configureThrows |-> configureThrows,
   failAt |-> failAt]

AbsentService == Service("absent", FALSE, "none")
HealthyService == Service("present", FALSE, "none")
FaultyServices ==
  {Service("present", TRUE, "none")}
    \cup {Service("present", FALSE, failAt) :
            failAt \in {"onSave", "onRestore", "onClear"}}

\* what one run explores: the operations started, the edits made, the
\* steps of the clock and their length, and what the service rejects with
Session(maxOps, maxEdits, maxTicks, tickStep, rejections) ==
  [maxOps |-> maxOps, maxEdits |-> maxEdits, maxNow |-> maxTicks * tickStep,
   tickStep |-> tickStep, rejections |-> rejections, drain |-> FALSE]

\* a run in which a timer that is pending always comes to fire: the clock
\* goes on beyond maxNow while a timer is pending, and the timer's Save
\* is not counted against maxOps (a timer fires once, and only an edit
\* arms one, so maxEdits bounds both)
Drained(limits) == [limits EXCEPT !.drain = TRUE]

DefaultSession == Session(MaxOps, MaxEdits, MaxTicks, TickStep, Rejections)

InitSession(injected, stores, keep, limits) ==
  /\ state = InitialState(0)
  /\ pluginStateUnsubscribers = <<>>
  /\ autoSaveTimeout = NullTimeout
  /\ phase = "constructed"
  /\ services \in injected
  /\ now = 0
  /\ timers = {}
  /\ calls = {}
  /\ stored \in stores
  /\ listeners = {}
  /\ unsubscribed = [h \in {"save", "restore", "clear"} |-> 0]
  /\ configurations = <<>>
  /\ opCount = 0
  /\ editCount = 0
  /\ logKeep = keep
  /\ session = limits
  /\ history = [mutations |-> <<>>, fires |-> <<>>, mutated |-> <<>>,
                untouched |-> FALSE]
  /\ rejected = {}

InitWith(injected, keep) ==
  InitSession(injected, InitialStores, keep, DefaultSession)

Init == InitWith({AbsentService, HealthyService}, LogKeep)

(***************************************************************************)
(* Calls in flight.                                                        *)
(***************************************************************************)
FreeId == CHOOSE i \in 1..(Cardinality(calls) + 1) :
            \A c \in calls : c.id # i

NewCall(op, arg, caller) ==
  [id |-> FreeId, op |-> op, arg |-> arg, caller |-> caller]

Pending(op) == {c \in calls : c.op = op}

\* setState on an unmounted component changes nothing
Applied(s) == IF phase = "mounted" THEN s ELSE state

\* a hook callback the service invokes, if that hook is registered
Notified(s, hook, text) ==
  IF hook \in listeners THEN addDebugLog(s, text) ELSE s

Preview(object) == Substring0(JSONStringify(object), HookPreview) \o "..."

EnvUnchanged == UNCHANGED <<services, logKeep, session>>

RethrownToCaller(operation, message) ==
  {[operation |-> operation, message |-> message]}

\* what the catch block of a method throws on to the method's caller: the
\* block calls handleError and ends, nothing is thrown again
Rethrown(operation, message) == {}

\* a method failed in this step with the message given
Failed(operation, message) ==
  rejected' = rejected \cup Rethrown(operation, message)

Counted(op, edit) ==
  /\ opCount' = opCount + op
  /\ editCount' = editCount + edit

(***************************************************************************)
(* componentDidMount: configurePluginState, then restoreState up to its    *)
(* await.                                                                  *)
(***************************************************************************)
RegisteredBefore(failAt) ==
  CASE failAt = "none"      -> {"save", "restore", "clear"}
    [] failAt = "onSave"    -> {}
    [] failAt = "onRestore" -> {"save"}
    [] failAt = "onClear"   -> {"save", "restore"}

\* the failure a hook registration throws
RegistrationError(failAt) == Error(failAt \o " failed")

configurePluginStateRethrows(s, svc) ==
  LET tried == addDebugLog(
        addDebugLog(addDebugLog(s, "Configuring PluginState service..."),
                    "Service configuration applied successfully"),
        "Warning: Some lifecycle hooks failed to register: "
          \o ErrorToString(RegistrationError(svc.failAt)))
  IN  [state |-> addDebugLog(tried, "Failed to configure PluginState service"),
       thrown |-> RegistrationError(svc.failAt),
       configs |-> <<PluginStateConfig>>,
       registered |-> RegisteredBefore(svc.failAt),
       handles |-> <<>>]

\* configurePluginState: the state after it, what it throws (NULL: nothing),
\* the configs it hands to configure, the hooks it registers with the service
\* and the unsubscribe handles it stores
configurePluginState(s, svc) ==
  IF svc.pluginState = "absent" THEN
    [state |-> addDebugLog(s, "Failed to configure PluginState service"),
     thrown |-> Error("PluginState service not available in services object"),
     configs |-> <<>>, registered |-> {}, handles |-> <<>>]
  ELSE IF svc.configureThrows THEN
    [state |-> addDebugLog(
                 addDebugLog(s, "Configuring PluginState service..."),
                 "Failed to configure PluginState service"),
     thrown |-> ConfigureError,
     configs |-> <<PluginStateConfig>>, registered |-> {}, handles |-> <<>>]
  ELSE
    LET applied == addDebugLog(
          addDebugLog(s, "Configuring PluginState service..."),
          "Service configuration applied successfully")
        hooked ==
          IF svc.failAt = "none"
            THEN addDebugLog(applied,
                   "Lifecycle hooks registered successfully")
            ELSE addDebugLog(applied,
                   "Warning: Some lifecycle hooks failed to register: "
                     \o ErrorToString(RegistrationError(svc.failAt)))
    IN  [state |-> addDebugLog(
                     SetState(hooked, [isStateConfigured |-> TRUE]),
                     "PluginState service configured successfully"),
         thrown |-> NULL,
         configs |-> <<PluginStateConfig>>,
         registered |-> RegisteredBefore(svc.failAt),
         handles |-> IF svc.failAt = "none" THEN Hooks ELSE <<>>]

componentDidMount ==
  /\ phase = "constructed"
  /\ phase' = "mounted"
  /\ LET configured == configurePluginState(
           addDebugLog(state, "Starting component initialization..."),
           services)
         restore == RestoreStart(configured.state, services.pluginState)
     IN
     /\ configurations' = configurations \o configured.configs
     /\ listeners' = listeners \cup configured.registered
     /\ pluginStateUnsubscribers' =
          pluginStateUnsubscribers \o configured.handles
     /\ IF configured.thrown # NULL
          THEN /\ state' = MountFailed(configured.state, configured.thrown)
               /\ Failed("componentDidMount", configured.thrown.message)
               /\ UNCHANGED calls
          ELSE /\ state' = restore.state
               /\ calls' = calls \cup
                    {NewCall("getState", NULL, "componentDidMount")}
               /\ UNCHANGED rejected
  /\ UNCHANGED <<autoSaveTimeout, now, timers, history, stored,
                 unsubscribed>>
  /\ Counted(0, 0)
  /\ EnvUnchanged

(***************************************************************************)
(* The operation buttons and the methods they call.                        *)
(***************************************************************************)
ContentShown ==
  phase = "mounted" /\ ~state.isInitializing /\ state.error = ""

ErrorShown ==
  phase = "mounted" /\ ~state.isInitializing /\ state.error # ""

\* the buttons of renderDemoTab are disabled while isLoading.  (The model
\* does not follow which tab is shown: a control counts as within reach
\* whenever the content is rendered.)
OperationButtons == ContentShown /\ ~state.isLoading

CanStart == opCount < session.maxOps

\* this.saveState(), on the state s
saveState(s, caller) ==
  LET save == SaveStart(s, services.pluginState) IN
  /\ state' = Applied(save.state)
  /\ calls' = IF save.arg = NULL THEN calls
              ELSE calls \cup {NewCall("saveState", save.arg, caller)}
  /\ IF save.arg = NULL THEN Failed("saveState", save.state.error)
                        ELSE UNCHANGED rejected

restoreState(s, caller) ==
  LET restore == RestoreStart(s, services.pluginState) IN
  /\ state' = Applied(restore.state)
  /\ calls' = IF restore.called
                THEN calls \cup {NewCall("getState", NULL, caller)}
                ELSE calls
  /\ IF restore.called THEN UNCHANGED rejected
                       ELSE Failed("restoreState", restore.state.error)

clearState(s, caller) ==
  LET clear == ClearStart(s, services.pluginState) IN
  /\ state' = Applied(clear.state)
  /\ calls' = IF clear.called
                THEN calls \cup {NewCall("clearState", NULL, caller)}
                ELSE calls
  /\ IF clear.called THEN UNCHANGED rejected
                     ELSE Failed("clearState", clear.state.error)

OpFrame ==
  /\ UNCHANGED <<pluginStateUnsubscribers, autoSaveTimeout, phase, now,
                 timers, stored, listeners, unsubscribed, configurations>>
  /\ Counted(1, 0)
  /\ EnvUnchanged

ClickSave ==
  /\ OperationButtons /\ CanStart
  /\ saveState(state, "button")
  /\ history' = [history EXCEPT !.untouched = FALSE]
  /\ OpFrame

ClickRestore ==
  /\ OperationButtons /\ CanStart
  /\ restoreState(state, "button")
  /\ UNCHANGED history
  /\ OpFrame

ClickClear ==
  /\ OperationButtons /\ CanStart
  /\ clearState(state, "button")
  /\ UNCHANGED history
  /\ OpFrame

(***************************************************************************)
(* An external promise settles.  The service acts as the development mock  *)
(* of src/src/index.tsx does (store, then notify the hooks), at the moment *)
(* the promise settles; a rejection leaves the store as it is.             *)
(***************************************************************************)
SettleFrame ==
  /\ UNCHANGED <<pluginStateUnsubscribers, autoSaveTimeout, phase, now,
                 timers, listeners, unsubscribed, configurations>>
  /\ Counted(0, 0)
  /\ EnvUnchanged

\* what runs after restoreState returned to its caller
AfterRestore(s, c) ==
  IF c.caller = "componentDidMount" THEN MountFinished(s) ELSE s

SaveStateResolves(c) ==
  /\ c \in Pending("saveState")
  /\ calls' = calls \ {c}
  /\ stored' = c.arg
  /\ state' = Applied(SaveResolved(
                Notified(state, "save", "State saved: " \o Preview(c.arg))))
  /\ UNCHANGED <<rejected, history>>
  /\ SettleFrame

SaveStateRejects(c, failure) ==
  /\ c \in Pending("saveState")
  /\ calls' = calls \ {c}
  /\ state' = Applied(handleError(state, failure, "saveState"))
  /\ Failed("saveState", ErrorInfoOf(failure, "saveState").message)
  /\ UNCHANGED <<stored, history>>
  /\ SettleFrame

GetStateResolves(c) ==
  /\ c \in Pending("getState")
  /\ calls' = calls \ {c}
  /\ state' = Applied(AfterRestore(
                RestoreResolved(
                  IF stored # NULL
                    THEN Notified(state, "restore",
                                  "State restored: " \o Preview(stored))
                    ELSE state,
                  stored),
                c))
  /\ UNCHANGED <<stored, rejected, history>>
  /\ SettleFrame

GetStateRejects(c, failure) ==
  /\ c \in Pending("getState")
  /\ calls' = calls \ {c}
  /\ state' = Applied(AfterRestore(
                handleError(state, failure, "restoreState"), c))
  /\ Failed("restoreState", ErrorInfoOf(failure, "restoreState").message)
  /\ UNCHANGED <<stored, history>>
  /\ SettleFrame

ClearStateResolves(c) ==
  /\ c \in Pending("clearState")
  /\ calls' = calls \ {c}
  /\ stored' = NULL
  /\ state' = Applied(ClearResolved(
                Notified(state, "clear", "State cleared")))
  /\ history' = [history EXCEPT !.untouched = TRUE]
  /\ UNCHANGED rejected
  /\ SettleFrame

ClearStateRejects(c, failure) ==
  /\ c \in Pending("clearState")
  /\ calls' = calls \ {c}
  /\ state' = Applied(handleError(state, failure, "clearState"))
  /\ Failed("clearState", ErrorInfoOf(failure, "clearState").message)
  /\ UNCHANGED <<stored, history>>
  /\ SettleFrame

Resolve ==
  \E c \in calls :
    \/ SaveStateResolves(c)
    \/ GetStateResolves(c)
    \/ ClearStateResolves(c)

Reject ==
  \E c \in calls, failure \in session.rejections :
    \/ SaveStateRejects(c, failure)
    \/ GetStateRejects(c, failure)
    \/ ClearStateRejects(c, failure)

(***************************************************************************)
(* The controls of the Interactive Demo tab, and the debounce timer.       *)
(***************************************************************************)
DemoControls == ContentShown /\ editCount < session.maxEdits

\* the handle of the next timer: handles are issued in increasing order
NextTimerId == Max({autoSaveTimeout} \cup {t.id : t \in timers}) + 1

debouncedAutoSaveKeepsFirst(handle, ts, id) ==
  IF \E t \in ts : t.id = handle
    THEN [autoSaveTimeout |-> handle, timers |-> ts]
    ELSE [autoSaveTimeout |-> id, timers |-> setTimeout(ts, id, DebounceDelay)]

debouncedAutoSaveNoCancel(handle, ts, id) ==
  [autoSaveTimeout |-> id, timers |-> setTimeout(ts, id, DebounceDelay)]

\* debouncedAutoSave: the handle it stores and the timers pending after it
debouncedAutoSave(handle, ts, id) ==
  LET cleared == IF handle # NullTimeout THEN clearTimeout(ts, handle) ELSE ts
  IN  [autoSaveTimeout |-> id,
       timers |-> setTimeout(cleared, id, DebounceDelay)]

\* updateDemoData(updates): the setState, then its callback
updateDemoData(updates) ==
  LET data == UpdatedDemoData(state.demoData, updates)
      armed == debouncedAutoSave(autoSaveTimeout, timers, NextTimerId)
  IN
  /\ state' = SetState(state, [demoData |-> data])
  /\ IF data.preferences.autoSave
       THEN /\ autoSaveTimeout' = armed.autoSaveTimeout
            /\ timers' = armed.timers
       ELSE UNCHANGED <<autoSaveTimeout, timers>>
  /\ history' = [history EXCEPT
                   !.mutations =
                     Append(@, [at |-> now,
                                autoSave |-> data.preferences.autoSave]),
                   !.mutated = Append(@, data),
                   !.untouched = FALSE]
  /\ UNCHANGED <<pluginStateUnsubscribers, phase, now, calls, stored,
                 listeners, unsubscribed, configurations, rejected>>
  /\ Counted(0, 1)
  /\ EnvUnchanged

handleTextChange(text) ==
  /\ DemoControls
  /\ text # state.demoData.userInput
  /\ updateDemoData([userInput |-> text])

incrementCounter ==
  /\ DemoControls
  /\ updateDemoData([counter |-> state.demoData.counter + 1])

decrementCounter ==
  /\ DemoControls
  /\ updateDemoData([counter |-> state.demoData.counter - 1])

handlePreferenceChange(key) ==
  /\ DemoControls
  /\ updateDemoData(
       [preferences |->
          [state.demoData.preferences EXCEPT ![key] = ~@]])

TimerStateWhenArmed(s, h) ==
  LET arming == {i \in DOMAIN h.mutations : h.mutations[i].autoSave}
  IN  IF arming = {} THEN s
      ELSE [s EXCEPT !.demoData = h.mutated[Max(arming)]]

\* the state the timer callback works on: the callback captures nothing
\* but this, and saveState reads this.state when it runs
TimerState(s, h) == s

\* the setTimeout callback of debouncedAutoSave
AutoSaveFires ==
  /\ CanStart \/ session.drain
  /\ \E t \in timers : /\ now >= t.due
                       /\ timers' = timers \ {t}
  /\ history' = [history EXCEPT !.fires = Append(@, now)]
  /\ saveState(addDebugLog(TimerState(state, history),
                           "Auto-saving after user input..."), "timer")
  /\ UNCHANGED <<pluginStateUnsubscribers, autoSaveTimeout, phase, now,
                 stored, listeners, unsubscribed, configurations>>
  /\ Counted(1, 0)
  /\ EnvUnchanged

\* the clock advances; a due timer fires first
Tick ==
  /\ now < session.maxNow \/ (session.drain /\ timers # {})
  /\ \A t \in timers : now < t.due
  /\ now' = now + session.tickStep
  /\ UNCHANGED <<state, pluginStateUnsubscribers, autoSaveTimeout, phase,
                 timers, history, calls, stored, listeners, unsubscribed,
                 configurations, opCount, editCount, rejected>>
  /\ EnvUnchanged

(***************************************************************************)
(* The tab bar, the error panel and the Debug Logs tab.                    *)
(***************************************************************************)
UiFrame ==
  /\ UNCHANGED <<pluginStateUnsubscribers, autoSaveTimeout, phase, now,
                 timers, history, calls, stored, listeners, unsubscribed,
                 configurations, opCount, editCount, rejected>>
  /\ EnvUnchanged

ClickClearError ==
  /\ ErrorShown
  /\ state' = clearError(state)
  /\ UiFrame

ClickToggleDetails ==
  /\ ErrorShown /\ state.errorInfo # NULL
  /\ state' = toggleErrorDetails(state)
  /\ UiFrame

ClickClearLogs ==
  /\ ContentShown
  /\ state.demoData.preferences.showDebugInfo
  /\ state.debugLogs # <<>>
  /\ state' = SetState(state, [debugLogs |-> <<>>])
  /\ UiFrame

(***************************************************************************)
(* componentWillUnmount.  throwing: the handles whose call throws.         *)
(***************************************************************************)
RECURSIVE cleanupServicesUncaught(_, _, _)
cleanupServicesUncaught(handles, counts, throwing) ==
  IF handles = <<>> THEN counts
  ELSE IF Head(handles) \in throwing
    THEN [counts EXCEPT ![Head(handles)] = @ + 1]
    ELSE cleanupServicesUncaught(Tail(handles),
           [counts EXCEPT ![Head(handles)] = @ + 1], throwing)

RECURSIVE cleanupServices(_, _, _)
\* the forEach of cleanupServices: every handle is invoked in turn; a
\* handle that throws is caught inside the loop, and the loop goes on
cleanupServices(handles, counts, throwing) ==
  IF handles = <<>> THEN counts
  ELSE cleanupServices(Tail(handles),
                       [counts EXCEPT ![Head(handles)] = @ + 1], throwing)

Range(seq) == {seq[i] : i \in 1..Len(seq)}

ReleasedTimersNone(handle, ts) == ts

\* componentWillUnmount: if (this.autoSaveTimeout) clearTimeout(...)
ReleasedTimers(handle, ts) ==
  IF handle # NullTimeout THEN clearTimeout(ts, handle) ELSE ts

componentWillUnmount(throwing) ==
  /\ phase = "mounted"
  /\ phase' = "unmounted"
  /\ autoSaveTimeout' = NullTimeout
  /\ timers' = ReleasedTimers(autoSaveTimeout, timers)
  /\ unsubscribed' = cleanupServices(pluginStateUnsubscribers, unsubscribed,
                                      throwing)
  /\ listeners' = listeners \ (Range(pluginStateUnsubscribers) \ throwing)
  /\ pluginStateUnsubscribers' = <<>>
  /\ state' = addDebugLog(state, "Services cleaned up")
  /\ UNCHANGED <<now, calls, stored, configurations, opCount, editCount,
                 history, rejected>>
  /\ EnvUnchanged

Unmount ==
  \E throwing \in SUBSET Range(pluginStateUnsubscribers) :
    componentWillUnmount(throwing)

(***************************************************************************)
(* The next-state relation and the specifications.                         *)
(***************************************************************************)
Next ==
  \/ componentDidMount
  \/ ClickSave
  \/ ClickRestore
  \/ ClickClear
  \/ Resolve
  \/ Reject
  \/ \E text \in TextInputs : handleTextChange(text)
  \/ incrementCounter
  \/ decrementCounter
  \/ \E key \in {"autoSave", "showDebugInfo"} : handlePreferenceChange(key)
  \/ AutoSaveFires
  \/ Tick
  \/ ClickClearError
  \/ ClickToggleDetails
  \/ ClickClearLogs

Spec == Init /\ [][Next]_vars

\* a timer of debouncedAutoSave has reached its delay: the condition under
\* which the event loop can run its callback
TimerDue ==
  /\ CanStart \/ session.drain
  /\ \E t \in timers : now >= t.due

\* the event loop runs a due callback: weak fairness of AutoSaveFires,
\* with its enabling condition written out
TimerFairness == []<>(~TimerDue) \/ []<><<AutoSaveFires>>_vars

\* Spec with what runs without the user taking its turn: a timer that is
\* due fires, the clock goes on, a call in flight settles
SpecRetry ==
  /\ Init
  /\ [][Next]_vars
  /\ TimerFairness
  /\ WF_vars(Tick)
  /\ WF_vars(Resolve \/ Reject)

\* the event loop left to itself after a bounded number of user actions:
\* every pending timer comes to fire and every call in flight settles
InitEventLoop ==
  InitSession({AbsentService, HealthyService, Service("present", TRUE, "none")},
              {NULL}, LogKeep,
              Drained(Session(EventLoopOps, EventLoopEdits, EventLoopTicks,
                              TickStep, {FetchError})))

NextEventLoop ==
  \/ componentDidMount
  \/ ClickSave
  \/ ClickRestore
  \/ ClickClear
  \/ Resolve
  \/ Reject
  \/ handleTextChange(TooLongText)
  \/ incrementCounter
  \/ handlePreferenceChange("autoSave")
  \/ AutoSaveFires
  \/ Tick
  \/ ClickClearError

SpecEventLoop ==
  /\ InitEventLoop
  /\ [][NextEventLoop]_vars
  /\ TimerFairness
  /\ WF_vars(Tick)
  /\ WF_vars(Resolve \/ Reject)

\* the whole life of a component, teardown included, with every service
\* and the log as the source keeps it
NextLifecycle == Next \/ Unmount

InitLifecycle ==
  InitSession({AbsentService, HealthyService} \cup FaultyServices,
              InitialStores, LogSlice,
              Session(LifecycleOps, LifecycleEdits, LifecycleTicks, TickStep,
                      Rejections))

SpecLifecycle == InitLifecycle /\ [][NextLifecycle]_vars

\* the texts the classifier looks for, and the messages of the exceptions
\* the service rejects with in the classifier specification: none of the
\* texts, each one, each two in either order, and texts in another case;
\* besides the exceptions, a plain text and a structured object
Patterns ==
  {"Service not available", "not configured", "validation", "invalid",
   "network", "fetch"}

ClassifierMessages ==
  {"", "Request timed out", "service not available", "Validation failed",
   "Invalid state", "Network down", "Not Configured"}
    \cup {"Error: " \o p \o " (code 7)" : p \in Patterns}
    \cup {p \o " / " \o q : p, q \in Patterns}

InitClassify ==
  InitSession({AbsentService, HealthyService}, {NULL}, LogKeep,
              Session(ClassifyOps, ClassifyEdits, ClassifyTicks, TickStep,
                      {Error(message) : message \in ClassifierMessages}
                        \cup {TextFailure, ObjectFailure}))

SpecClassify == InitClassify /\ [][Next]_vars

\* the records the validator specification starts from: every combination
\* of a text at, below and beyond the length limit, a counter at, within
\* and beyond the ends of the range, and a timestamp that parses, is empty,
\* is no date, or names a thirteenth month; besides them, the record
\* whose re-save is exactly at the size ceiling
ValidatorTimestamps ==
  {"2023-12-31T23:59:59.000Z", "", "yesterday", "2024-13-01T00:00:00.000Z"}

ValidatorStores ==
  {[demoData |-> [userInput |-> text, counter |-> counter,
                  preferences |-> [autoSave |-> TRUE,
                                   showDebugInfo |-> TRUE],
                  timestamp |-> timestamp],
    saveCount |-> 0, restoreCount |-> 0] :
     text \in TextInputs,
     counter \in {MinCounter - 1, MinCounter, 0, MaxCounter, MaxCounter + 1},
     timestamp \in ValidatorTimestamps}

InitValidate ==
  InitSession({HealthyService}, ValidatorStores \cup {OldRecord}, LogKeep,
              Session(ValidateOps, ValidateEdits, ValidateTicks, TickStep,
                      Rejections))

SpecValidate == InitValidate /\ [][Next]_vars

\* the debounce timer on a finer clock: two edits, half a delay apart
InitDebounce ==
  InitSession({HealthyService}, {NULL}, LogKeep,
              Session(DebounceOps, DebounceEdits, DebounceTicks,
                      DebounceDelay \div 2, Rejections))

SpecDebounce == InitDebounce /\ [][Next]_vars

\* the log as the source keeps it, slice(-19) before every append, under
\* the handlers that write to it and the ones that make those possible
InitLog ==
  InitSession({HealthyService}, {OldRecord}, LogSlice,
              Session(LogOps, LogEdits, LogTicks, TickStep, Rejections))

NextLog ==
  \/ componentDidMount
  \/ ClickSave
  \/ ClickRestore
  \/ ClickClear
  \/ Resolve
  \/ Reject
  \/ incrementCounter
  \/ AutoSaveFires
  \/ Tick
  \/ ClickClearError
  \/ ClickToggleDetails
  \/ ClickClearLogs

SpecLog == InitLog /\ [][NextLog]_vars

(***************************************************************************)
(* Properties.                                                             *)
(***************************************************************************)
\* a step in which saveState is called: by the button, or by the timer
SaveInvoked == ClickSave \/ AutoSaveFires

\* the external calls a step starts
NewCalls == {c \in calls' : c \notin calls}

Logged(s, message) ==
  \E i \in 1..Len(s.debugLogs) : Includes(s.debugLogs[i], message)

LastLogged(s, message) ==
  s.debugLogs # <<>> /\ Includes(s.debugLogs[Len(s.debugLogs)], message)

\* what saveState leaves alone when it fails before the external call
SaveLeftAlone ==
  /\ stored' = stored
  /\ state'.saveCount = state.saveCount
  /\ state'.lastSaveTime = state.lastSaveTime

\* C1: whenever Save is invoked while the service reference is absent, the
\* external saveState is not called and the resulting ErrorRecord has
\* category 'service'.
C1_AbsentSaveIsServiceError ==
  [][(SaveInvoked /\ services.pluginState = "absent")
       => /\ NewCalls = {}
          /\ state'.errorInfo # NULL
          /\ state'.errorInfo.operation = "saveState"
          /\ state'.errorInfo.type = "service"]_vars

\* Save was invoked without a service reference: nothing was called and
\* the ErrorRecord of the attempt is shown, in category 'unknown'
C1_Witness ==
  /\ services.pluginState = "absent"
  /\ state.errorInfo # NULL
  /\ state.errorInfo.operation = "saveState"
  /\ state.errorInfo.message =
       "PluginState service not available for save operation"
  /\ state.errorInfo.type = "unknown"
  /\ calls = {}

\* C2 as stated: whenever Save is invoked and the serialized size of the
\* envelope {demoData, saveCount+1, restoreCount} is greater than 10240, no
\* external saveState is called and the error message contains the computed
\* size; an envelope of exactly 10240 is not rejected by the size check.
C2_OversizeAlwaysSizeError ==
  [][SaveInvoked =>
       LET stateSize == Len(JSONStringify(StateToSave(state))) IN
       /\ stateSize > MaxStateSize
            => /\ NewCalls = {}
               /\ state'.errorInfo # NULL
               /\ Includes(state'.errorInfo.message, ToString(stateSize))
       /\ stateSize = MaxStateSize
            => \/ state'.errorInfo = NULL
               \/ ~Includes(state'.errorInfo.message, "exceeds maximum")]_vars

\* C2 amended: whenever Save is invoked with the service present on a
\* DemoData that passes the Local Validator, an envelope of serialized size
\* greater than 10240 is not handed to the external saveState and the error
\* message is the size message with the computed size; an envelope of size
\* exactly 10240 is handed to saveState.  (Whatever the other checks say, an
\* envelope greater than 10240 is never handed over.)
C2_OversizeRejected ==
  [][SaveInvoked =>
       LET stateSize == Len(JSONStringify(StateToSave(state)))
           passes == /\ services.pluginState = "present"
                     /\ validateDemoData(state.demoData).isValid
       IN
       /\ stateSize > MaxStateSize => NewCalls = {}
       /\ (passes /\ stateSize > MaxStateSize)
            => /\ state'.errorInfo # NULL
               /\ state'.errorInfo.operation = "saveState"
               /\ state'.errorInfo.message = SizeMessage(stateSize)
               /\ Includes(state'.errorInfo.message, ToString(stateSize))
               /\ state'.error = state'.errorInfo.message
               /\ SaveLeftAlone
       /\ (passes /\ stateSize = MaxStateSize)
            => /\ state'.errorInfo = NULL
               /\ \E c \in NewCalls :
                    c.op = "saveState" /\ c.arg = StateToSave(state)]_vars

\* a size error is shown for an envelope one unit over the limit
C2_Witness ==
  /\ state.errorInfo # NULL
  /\ state.errorInfo.operation = "saveState"
  /\ state.errorInfo.message = SizeMessage(MaxStateSize + 1)
  /\ Len(JSONStringify(StateToSave(state))) = MaxStateSize + 1
  /\ calls = {}

\* C3 as stated: whenever Save is invoked on a DemoData that fails the Local
\* Validator, the external saveState is not called, the persisted envelope,
\* the save counter and the last-save timestamp are unchanged, and the error
\* text is 'Validation failed: ' followed by the comma-joined messages.
C3_InvalidAlwaysValidationError ==
  [][(SaveInvoked /\ ~validateDemoData(state.demoData).isValid)
       => /\ NewCalls = {}
          /\ SaveLeftAlone
          /\ state'.error = "Validation failed: "
                              \o Join(validateDemoData(state.demoData).errors)
    ]_vars

\* C3 amended: the same, for a Save invoked with the service reference
\* present (without it the error text is the service-unavailable message);
\* whether or not it is present, nothing is called and nothing persisted
\* or counted changes.
C3_InvalidRejected ==
  [][(SaveInvoked /\ ~validateDemoData(state.demoData).isValid)
       => /\ NewCalls = {}
          /\ SaveLeftAlone
          /\ services.pluginState = "present"
               => /\ state'.error = "Validation failed: "
                      \o Join(validateDemoData(state.demoData).errors)
                  /\ state'.errorInfo # NULL
                  /\ state'.errorInfo.message = state'.error
                  /\ state'.errorInfo.operation = "saveState"]_vars

\* a validation error is shown for data that fails the validator
C3_Witness ==
  /\ services.pluginState = "present"
  /\ ~validateDemoData(state.demoData).isValid
  /\ state.errorInfo # NULL
  /\ state.errorInfo.operation = "saveState"
  /\ state.error = "Validation failed: "
                     \o Join(validateDemoData(state.demoData).errors)

\* C4: every Save whose external saveState call resolves increases the save
\* counter by exactly one, sets the last-save timestamp to a non-null value,
\* clears the busy flag and appends a 'State saved successfully' log entry;
\* it changes neither DemoData nor the restore counter.
C4_SaveResolvedEffects ==
  [][\A c \in calls :
       SaveStateResolves(c)
         => /\ state'.saveCount = state.saveCount + 1
            /\ state'.lastSaveTime # NullTime
            /\ state'.lastSaveTime = ToLocaleTimeString(now)
            /\ ~state'.isLoading
            /\ LastLogged(state', "State saved successfully")
            /\ state'.demoData = state.demoData
            /\ state'.restoreCount = state.restoreCount]_vars

\* a save has resolved
C4_Witness ==
  /\ LastLogged(state, "State saved successfully")
  /\ state.saveCount > 0
  /\ state.lastSaveTime # NullTime
  /\ stored # NULL /\ "saveCount" \in DOMAIN stored
  /\ stored.saveCount = state.saveCount

\* C5: every envelope handed to the external saveState carries the DemoData
\* that was current when Save started, saveCount equal to the save counter
\* at that moment plus one, and restoreCount equal to the restore counter at
\* that moment.
C5_EnvelopeOfSave ==
  [][\A c \in NewCalls :
       c.op = "saveState"
         => /\ SaveInvoked
            /\ c.arg = [demoData |-> state.demoData,
                        saveCount |-> state.saveCount + 1,
                        restoreCount |-> state.restoreCount]]_vars

\* an envelope with edited data and non-zero counters is in flight
C5_Witness ==
  \E c \in calls :
    /\ c.op = "saveState"
    /\ c.arg.demoData = state.demoData
    /\ c.arg.demoData # DefaultDemoData(0)
    /\ c.arg.saveCount = state.saveCount + 1
    /\ c.arg.saveCount > 1
    /\ c.arg.restoreCount > 0

\* the fields Restore and Clear must leave alone when they apply nothing
DataLeftAlone ==
  /\ state'.demoData = state.demoData
  /\ state'.saveCount = state.saveCount
  /\ state'.restoreCount = state.restoreCount
  /\ state'.lastSaveTime = state.lastSaveTime
  /\ state'.lastRestoreTime = state.lastRestoreTime

\* the newest entries of the log are the given messages, in that order
LogEndsWith(s, messages) ==
  /\ Len(s.debugLogs) >= Len(messages)
  /\ \A i \in 1..Len(messages) :
       Includes(s.debugLogs[Len(s.debugLogs) - Len(messages) + i],
                messages[i])

\* C6: when Restore is invoked and the external getState resolves to an
\* absent value, DemoData, the save counter, the restore counter and the
\* last-restore timestamp are unchanged, no ErrorRecord is created, the busy
\* flag is cleared and 'No saved state found' is logged.
C6_RestoreNothingStored ==
  [][/\ ClickRestore => DataLeftAlone
     /\ \A c \in calls :
          (GetStateResolves(c) /\ stored = NULL)
            => /\ DataLeftAlone
               /\ state'.errorInfo = state.errorInfo
               /\ state'.error = state.error
               /\ ~state'.isLoading
               /\ IF c.caller = "componentDidMount"
                    THEN LogEndsWith(state', <<"No saved state found",
                           "Component initialized successfully">>)
                    ELSE LastLogged(state', "No saved state found")]_vars

\* a Restore by the button found nothing, with edited data and a counter
\* left as they were
C6_Witness ==
  /\ LastLogged(state, "No saved state found")
  /\ stored = NULL
  /\ state.demoData # DefaultDemoData(0)
  /\ state.errorInfo = NULL
  /\ ~state.isLoading

\* C7: when Restore is invoked and getState resolves to a record, the
\* restore counter becomes the record's restoreCount plus one (1 if it has
\* none), the save counter becomes the record's saveCount (0 if it has
\* none), and DemoData becomes the record's demoData (or stays as it was if
\* it has none); a stored restoreCount of 3 yields a restore counter of 4.
C7_RestoreAdoptsRecord ==
  [][\A c \in calls :
       (GetStateResolves(c) /\ stored # NULL)
         => /\ state'.restoreCount =
                 (IF "restoreCount" \in DOMAIN stored
                    THEN stored.restoreCount ELSE 0) + 1
            /\ state'.saveCount =
                 (IF "saveCount" \in DOMAIN stored
                    THEN stored.saveCount ELSE 0)
            /\ state'.demoData =
                 (IF "demoData" \in DOMAIN stored
                    THEN stored.demoData ELSE state.demoData)]_vars

\* the record with restoreCount 3 was restored: the restore counter is 4
C7_Witness ==
  /\ stored = OldRecord
  /\ stored.restoreCount = 3
  /\ state.restoreCount = 4
  /\ state.saveCount = 2
  /\ state.demoData = OldRecord.demoData
  /\ LogEndsWith(state, <<"State restored successfully">>)

\* C8: the last-restore timestamp changes only in a step where Restore found
\* a record and applied it, or where Clear resets it to null; a Restore that
\* finds no record, or whose external call fails, never changes it.
C8_RestoreTimeChanges ==
  [][state'.lastRestoreTime # state.lastRestoreTime
       => \/ \E c \in calls : GetStateResolves(c) /\ stored # NULL
          \/ \E c \in calls : /\ ClearStateResolves(c)
                              /\ state'.lastRestoreTime = NullTime]_vars

\* a record was restored after the clock had advanced
C8_Witness ==
  /\ state.lastRestoreTime = ToLocaleTimeString(TickStep)
  /\ state.lastRestoreTime # ToLocaleTimeString(0)
  /\ state.restoreCount > 0

\* C9: when Clear is invoked and the external clearState resolves, the
\* state right afterwards has counter 0, empty text, autoSave true,
\* showDebugInfo true, save counter 0, restore counter 0 and both display
\* timestamps null, whatever the state before.
C9_ClearResolvedResets ==
  [][\A c \in calls :
       ClearStateResolves(c)
         => /\ state'.demoData.counter = 0
            /\ state'.demoData.userInput = ""
            /\ state'.demoData.preferences.autoSave
            /\ state'.demoData.preferences.showDebugInfo
            /\ state'.saveCount = 0
            /\ state'.restoreCount = 0
            /\ state'.lastSaveTime = NullTime
            /\ state'.lastRestoreTime = NullTime]_vars

\* Clear has just reset a state that was not the default one: an auto-save
\* of the edited data is still in flight
C9_Witness ==
  /\ LastLogged(state, "State cleared successfully")
  /\ state.demoData = DefaultDemoData(now)
  /\ state.saveCount = 0 /\ state.restoreCount = 0
  /\ \E c \in calls :
       /\ c.op = "saveState"
       /\ c.arg.demoData.preferences # state.demoData.preferences
       /\ c.arg.restoreCount > 0

\* C10: Clear resets local state only on success: when the service reference
\* is absent or the external clearState call fails, DemoData, both counters
\* and both display timestamps keep their values, and an ErrorRecord with
\* operation 'clearState' is surfaced.
C10_ClearFailureKeepsState ==
  [][/\ ClickClear
          => /\ DataLeftAlone
             /\ services.pluginState = "absent"
                  => /\ NewCalls = {}
                     /\ state'.errorInfo # NULL
                     /\ state'.errorInfo.operation = "clearState"
                     /\ state'.error = state'.errorInfo.message
     /\ \A c \in calls, failure \in session.rejections :
          ClearStateRejects(c, failure)
            => /\ DataLeftAlone
               /\ stored' = stored
               /\ state'.errorInfo # NULL
               /\ state'.errorInfo.operation = "clearState"
               /\ state'.error = state'.errorInfo.message]_vars

\* a failed Clear is shown while the restored counters are still there
C10_Witness ==
  /\ state.errorInfo # NULL
  /\ state.errorInfo.operation = "clearState"
  /\ state.saveCount = 2 /\ state.restoreCount = 4
  /\ state.lastRestoreTime # NullTime
  /\ state.demoData = OldRecord.demoData
  /\ stored = OldRecord

\* C11: if auto-save is enabled and DemoData is mutated twice, the second
\* mutation less than 1000 time-units after the first (and no further one
\* in between), the timer invokes Save exactly once for the pair, 1000
\* time-units after the second mutation: mutations at 0 and 500 give one
\* Save at 1500 and none at 1000.
C11_DebouncedPair ==
  \A i \in 1..(Len(history.mutations) - 1) :
    LET first == history.mutations[i]
        second == history.mutations[i + 1]
        due == second.at + DebounceDelay
        saves == {j \in DOMAIN history.fires :
                    history.fires[j] > first.at /\ history.fires[j] <= due}
    IN  (/\ first.autoSave /\ second.autoSave
         /\ second.at - first.at < DebounceDelay
         /\ \A k \in DOMAIN history.mutations :
              k > i + 1 => history.mutations[k].at > due)
          => /\ \A j \in saves : history.fires[j] = due
             /\ Cardinality(saves) <= 1
             /\ now > due => Cardinality(saves) = 1

\* mutations at 0 and 500, and the one Save at 1500
C11_Witness ==
  /\ history.mutations = <<[at |-> 0, autoSave |-> TRUE],
                           [at |-> DebounceDelay \div 2, autoSave |-> TRUE]>>
  /\ history.fires = <<DebounceDelay + DebounceDelay \div 2>>
  /\ now = DebounceDelay + DebounceDelay \div 2

\* C12: in every reachable state at most one auto-save trigger is pending;
\* arming while a trigger is pending cancels it and replaces it with the
\* new one (last-write-wins).
C12_OneTriggerPending ==
  /\ [](Cardinality(timers) <= 1)
  /\ [][(/\ history'.mutations # history.mutations
         /\ state'.demoData.preferences.autoSave)
          => /\ Cardinality(timers') = 1
             /\ \A t \in timers' : /\ t.due = now + DebounceDelay
                                   /\ t.id = autoSaveTimeout'
                                   /\ t \notin timers]_vars

\* a trigger armed at 0 was replaced by the one armed at 500
C12_Witness ==
  /\ Len(history.mutations) = 2
  /\ history.mutations[1].autoSave /\ history.mutations[1].at = 0
  /\ now = DebounceDelay \div 2
  /\ history.fires = <<>>
  /\ \E t \in timers : t.due = now + DebounceDelay /\ timers = {t}

\* C13: after component teardown no auto-save trigger is pending, and the
\* scheduler never invokes Save after teardown, even if a trigger was
\* pending when teardown began.
C13_NoTriggerAfterTeardown ==
  /\ [](phase = "unmounted"
          => timers = {} /\ autoSaveTimeout = NullTimeout)
  /\ [][/\ AutoSaveFires => phase = "mounted"
        /\ \A c \in NewCalls : c.caller = "timer" => phase = "mounted"]_vars

\* the component was torn down with a trigger pending, the delay has passed
\* and Save was not invoked
C13_Witness ==
  /\ phase = "unmounted"
  /\ Len(history.mutations) > 0
  /\ history.mutations[Len(history.mutations)].autoSave
  /\ now >= history.mutations[Len(history.mutations)].at + DebounceDelay
  /\ history.fires = <<>>
  /\ timers = {}

\* C15: at teardown, if invoking a stored unsubscribe handle fails, the
\* failure is swallowed: every other stored handle is still invoked,
\* teardown completes, and the stored handle list is empty afterwards.
C15_UnsubscribeFailureSwallowed ==
  [][\A throwing \in SUBSET Range(pluginStateUnsubscribers) :
       (throwing # {} /\ componentWillUnmount(throwing))
         => /\ \A h \in Range(pluginStateUnsubscribers) :
                  unsubscribed'[h] = unsubscribed[h] + 1
            /\ pluginStateUnsubscribers' = <<>>
            /\ phase' = "unmounted"
            /\ state'.errorInfo = state.errorInfo]_vars

\* teardown is over, every handle was invoked once, and a hook is still
\* registered with the service because its unsubscribe failed
C15_Witness ==
  /\ phase = "unmounted"
  /\ \A h \in DOMAIN unsubscribed : unsubscribed[h] = 1
  /\ listeners # {}
  /\ pluginStateUnsubscribers = <<>>

\* C16: subscription failures are handled individually: whichever of the
\* three subscriptions fail, each subscription that succeeded has its
\* unsubscribe handle invoked exactly once at teardown.
C16_SucceededHandlesInvoked ==
  [][(/\ Unmount
      /\ services.pluginState = "present" /\ ~services.configureThrows)
       => \A h \in RegisteredBefore(services.failAt) :
            unsubscribed'[h] = 1]_vars

\* on-restore failed to subscribe; on-save had subscribed, and after
\* teardown its hook is still registered and its handle was never invoked
C16_Witness ==
  /\ phase = "unmounted"
  /\ services.failAt = "onRestore"
  /\ listeners = {"save"}
  /\ unsubscribed["save"] = 0

\* C17: if configure succeeds but a hook subscription fails, initialization
\* still proceeds: the configured flag becomes true, the initial Restore is
\* attempted, no ErrorRecord is surfaced, and only a warning is logged.
C17_SubscriptionFailureNotFatal ==
  [][(/\ componentDidMount
      /\ services.pluginState = "present" /\ ~services.configureThrows
      /\ services.failAt # "none")
       => /\ state'.isStateConfigured
          /\ \E c \in NewCalls :
               c.op = "getState" /\ c.caller = "componentDidMount"
          /\ state'.errorInfo = NULL /\ state'.error = ""
          /\ Logged(state',
               "Warning: Some lifecycle hooks failed to register")
          /\ ~Logged(state', "ERROR")
          /\ ~Logged(state', "Failed to configure")
          /\ Logged(state', "Starting state restore operation...")]_vars

\* the component is initialized and configured although a subscription
\* failed: the log has the warning and no error is shown
C17_Witness ==
  /\ services.failAt # "none"
  /\ phase = "mounted" /\ ~state.isInitializing
  /\ state.isStateConfigured
  /\ state.errorInfo = NULL /\ state.error = ""
  /\ Logged(state, "Warning: Some lifecycle hooks failed to register")
  /\ Logged(state, "Component initialized successfully")

\* C14: in every reachable state the operation log holds at most 20
\* entries; appending to a log of 20 entries removes exactly the oldest
\* entry and keeps the other 19 in their order, followed by the new entry;
\* otherwise the log only grows by appending at the end, except for the
\* user's full clear, which empties it.  (No handler appends more than six
\* entries in one run-to-completion step.)
C14_BoundedAppendOnlyLog ==
  /\ [](Len(state.debugLogs) <= 20)
  /\ [][LET old == state.debugLogs
            new == state'.debugLogs
        IN  \/ new = old
            \/ ClickClearLogs /\ new = <<>>
            \/ \E k \in 1..6 :
                 /\ k <= Len(new)
                 /\ new = SliceLast(
                      old \o SubSeq(new, Len(new) - k + 1, Len(new)), 20)
                 /\ (Len(old) = 20 /\ k = 1)
                      => new = Tail(old) \o <<new[20]>>]_vars

\* the log is full and its oldest entry is no longer the first one logged
C14_Witness ==
  /\ Len(state.debugLogs) = 20
  /\ ~Includes(state.debugLogs[1], "Starting component initialization...")
  /\ Includes(state.debugLogs[1], "Configuring PluginState service...")

\* C18: the busy flag is set for the whole duration of every Save, Restore
\* and Clear: in every reachable state in which an external saveState,
\* getState or clearState call has not yet settled, the busy flag is true.
C18_BusyWhileCallPending ==
  (phase = "mounted" /\ calls # {}) => state.isLoading

\* two saves overlapped, one by the button and one by the timer; the first
\* has resolved and the other is still in flight with the busy flag off
C18_Witness ==
  /\ phase = "mounted"
  /\ \E c \in calls : c.op = "saveState"
  /\ ~state.isLoading
  /\ state.errorInfo = NULL
  /\ state.saveCount > 0
  /\ LastLogged(state, "State saved successfully")

\* an operation attempt: Save, Restore or Clear by its button, or Save by
\* the auto-save trigger
AttemptStarts == ClickSave \/ ClickRestore \/ ClickClear \/ AutoSaveFires

\* C19: at the start of every Save, Restore or Clear attempt, by the user or
\* by the auto-save trigger, any previously displayed error is removed: the
\* error text is empty, the ErrorRecord is null and the details view is
\* collapsed before the operation's external call is made.  (An attempt
\* that fails before its call shows the error of that attempt only.)
C19_AttemptClearsError ==
  [][/\ \A c \in NewCalls : /\ state'.error = ""
                            /\ state'.errorInfo = NULL
                            /\ ~state'.showErrorDetails
     /\ AttemptStarts
          => /\ ~state'.showErrorDetails
             /\ \/ state'.errorInfo = NULL /\ state'.error = ""
                \/ /\ NewCalls = {}
                   /\ state'.errorInfo # NULL
                   /\ state'.errorInfo.timestamp = ToISOString(now)
                   /\ state'.errorInfo.operation
                        \in {"saveState", "restoreState", "clearState"}
                   /\ state'.error = state'.errorInfo.message]_vars

\* the trigger fired while an error was displayed: the error was cleared
\* and the external call is in flight
C19_Witness ==
  /\ \E c \in calls : c.op = "saveState" /\ c.caller = "timer"
  /\ state.error = "" /\ state.errorInfo = NULL /\ ~state.showErrorDetails
  /\ LogEndsWith(state, <<"ERROR in ", "Auto-saving after user input...",
                          "Error cleared by user",
                          "Starting state save operation...",
                          "Saving state (">>)

\* C20: for a failure that is an exception, the Error Classifier assigns
\* the category by first match on the message text: contains 'Service not
\* available' or 'not configured' gives service; else contains 'validation'
\* or 'invalid' gives validation; else contains 'network' or 'fetch' gives
\* network; else unknown.  A message matching several groups gets the
\* category of the earliest group.  (The ErrorRecord of an exception is the
\* one that carries a stack.)
C20_FirstMatchCategory ==
  (state.errorInfo # NULL /\ state.errorInfo.stack # "")
    => LET message == state.errorInfo.message
           service == \/ Includes(message, "Service not available")
                      \/ Includes(message, "not configured")
           validation == \/ Includes(message, "validation")
                         \/ Includes(message, "invalid")
           network == \/ Includes(message, "network")
                      \/ Includes(message, "fetch")
       IN  /\ service => state.errorInfo.type = "service"
           /\ (~service /\ validation) => state.errorInfo.type = "validation"
           /\ (~service /\ ~validation /\ network)
                => state.errorInfo.type = "network"
           /\ (~service /\ ~validation /\ ~network)
                => state.errorInfo.type = "unknown"

\* a message with a text of the third group before a text of the second
\* group is in the category of the second
C20_Witness ==
  /\ state.errorInfo # NULL
  /\ state.errorInfo.message = "fetch / invalid"
  /\ state.errorInfo.stack # ""
  /\ state.errorInfo.type = "validation"

\* the category the classification policy gives a message text
PolicyCategory(message) ==
  IF Includes(message, "Service not available")
       \/ Includes(message, "not configured") THEN "service"
  ELSE IF Includes(message, "validation")
       \/ Includes(message, "invalid") THEN "validation"
  ELSE IF Includes(message, "network")
       \/ Includes(message, "fetch") THEN "network"
  ELSE "unknown"

\* C21: for a failure value that is not an exception (a plain text or a
\* structured object: its ErrorRecord carries no stack), the message is the
\* text, or the object's message, the category is the one the message-text
\* policy gives that message (a plain text containing 'network' is
\* categorized network), and for a structured object the details field
\* holds the serialized object.
C21_NonExceptionClassified ==
  (state.errorInfo # NULL /\ state.errorInfo.stack = "")
    => /\ state.errorInfo.message \in {TextFailure.text, ObjectFailure.message}
       /\ state.errorInfo.type = PolicyCategory(state.errorInfo.message)
       /\ state.errorInfo.message = ObjectFailure.message
            => state.errorInfo.details = ObjectFailure.json

\* the plain text 'network unreachable' was surfaced, and its category is
\* unknown
C21_Witness ==
  /\ state.errorInfo # NULL
  /\ state.errorInfo.stack = ""
  /\ state.error = "network unreachable"
  /\ state.errorInfo.type = "unknown"
  /\ state.errorInfo.details = ""

\* the coercion and the serialization of C21, without the category: a
\* plain text is the message and leaves the details empty, a structured
\* object gives its message and its serialization
C21_NonExceptionCoerced ==
  (state.errorInfo # NULL /\ state.errorInfo.stack = "")
    => \/ /\ state.errorInfo.message = TextFailure.text
          /\ state.errorInfo.details = ""
       \/ /\ state.errorInfo.message = ObjectFailure.message
          /\ state.errorInfo.details = ObjectFailure.json

\* the failure of an operation is on the error surface after the step: an
\* ErrorRecord with that operation name, its message as the error text, an
\* 'ERROR in <operation>' entry in the log, the busy flag cleared
Surfaced(operation) ==
  /\ state'.errorInfo # NULL
  /\ state'.errorInfo.operation = operation
  /\ state'.error = state'.errorInfo.message
  /\ Logged(state', "ERROR in " \o operation \o ": " \o state'.error)
  /\ ~state'.isLoading

FailureSurfaced ==
  state'.errorInfo # NULL /\ state'.errorInfo # state.errorInfo

\* C24: the error surface goes from no-error by a failure to error-shown
\* with the details collapsed, from there by the user's toggle to details
\* expanded, and back to no-error when the user clears the error or a new
\* operation attempt begins.  In the state right after any failure is
\* surfaced the details view is collapsed; the details are expanded only
\* by the user's toggle; the error goes away only by the user's Clear Error
\* or by an attempt; and without an error the details are collapsed.
C24_ErrorSurfaceMachine ==
  [][/\ FailureSurfaced => ~state'.showErrorDetails
     /\ (state'.showErrorDetails /\ ~state.showErrorDetails)
          => ClickToggleDetails
     /\ (state.errorInfo # NULL /\ state'.errorInfo = NULL)
          => ClickClearError \/ AttemptStarts
     /\ state'.errorInfo = NULL => ~state'.showErrorDetails]_vars

\* the rejection of the button's Save has replaced the validation failure
\* of the timer's Save on the error surface, with no clearing in between,
\* and the details view is expanded
C24_Witness ==
  /\ state.showErrorDetails
  /\ state.errorInfo # NULL
  /\ state.error = "Failed to fetch"
  /\ LogEndsWith(state, <<"ERROR in saveState: Validation failed",
                          "ERROR in saveState: Failed to fetch">>)
  /\ calls = {}

\* the transitions of C24 other than failure-to-collapsed
C24_OtherTransitions ==
  [][/\ (state'.showErrorDetails /\ ~state.showErrorDetails)
          => ClickToggleDetails
     /\ (state.errorInfo # NULL /\ state'.errorInfo = NULL)
          => ClickClearError \/ AttemptStarts
     /\ state'.errorInfo = NULL => ~state'.showErrorDetails]_vars

\* the timestamps of the validator specification that do not parse
Unparseable == {"", "yesterday", "2024-13-01T00:00:00.000Z"}

\* the violations the three rules give a record, one message for each
\* violated rule
Violations(d) ==
  (IF Len(d.userInput) > 1000
     THEN <<"User input exceeds maximum length of 1000 characters">>
     ELSE <<>>)
  \o (IF d.counter < -1000 \/ d.counter > 1000
        THEN <<"Counter value must be between -1000 and 1000">> ELSE <<>>)
  \o (IF d.timestamp \in Unparseable
        THEN <<"Invalid timestamp format">> ELSE <<>>)

\* C25: the Local Validator reports valid exactly when the text length is
\* at most 1000, the counter is within [-1000, 1000] and the timestamp is
\* parseable, and its violation list holds exactly one message for each
\* violated rule, all three rules being evaluated: a text longer than 1000
\* always lists the length violation, a counter outside the range is
\* invalid, a valid record yields an empty list.  When Save fails the
\* validation, the error text is the comma-joined list.
C25_ValidatorRules ==
  [][LET d == state.demoData
         v == validateDemoData(d)
         valid == /\ Len(d.userInput) <= 1000
                  /\ d.counter >= -1000 /\ d.counter <= 1000
                  /\ d.timestamp \notin Unparseable
     IN  /\ v.isValid <=> valid
         /\ v.errors = Violations(d)
         /\ valid <=> v.errors = <<>>
         /\ (ClickSave /\ ~valid)
              => /\ NewCalls = {}
                 /\ state'.error = "Validation failed: " \o Join(Violations(d))
    ]_vars

\* Save was tried on a record that violates all three rules, and the error
\* text lists the three violations
C25_Witness ==
  /\ Len(state.demoData.userInput) > 1000
  /\ state.demoData.counter = 1001
  /\ state.demoData.timestamp = "yesterday"
  /\ state.error =
       "Validation failed: "
         \o "User input exceeds maximum length of 1000 characters, "
         \o "Counter value must be between -1000 and 1000, "
         \o "Invalid timestamp format"

C27_CountersNeverDecrease ==
  [][/\ state'.saveCount >= state.saveCount
     /\ state'.restoreCount >= state.restoreCount]_vars

\* C27: the local save counter and the local restore counter are lowered
\* only by a Clear that succeeds, which sets both to 0, and by a Restore
\* that finds a record, which sets the save counter to the record's (0 if
\* it has none) and the restore counter to the record's plus one; every
\* other step (a mutation, a Save, a failure, a Restore that finds
\* nothing) leaves each counter as it is or raises it by one.
C27_CountersLoweredByClearOrRestore ==
  [][LET cleared == \E c \in calls : ClearStateResolves(c)
         adopted == stored # NULL /\ \E c \in calls : GetStateResolves(c)
     IN  /\ cleared => state'.saveCount = 0 /\ state'.restoreCount = 0
         /\ adopted
              => /\ state'.saveCount =
                      IF "saveCount" \in DOMAIN stored
                        THEN stored.saveCount ELSE 0
                 /\ state'.restoreCount =
                      IF "restoreCount" \in DOMAIN stored
                        THEN stored.restoreCount + 1 ELSE 1
         /\ ~(cleared \/ adopted)
              => /\ state'.saveCount \in
                      {state.saveCount, state.saveCount + 1}
                 /\ state'.restoreCount = state.restoreCount]_vars

\* the counters restored from a record are back at 0 after a Clear, while
\* a Save that was started before the Clear is still in flight
C27_Witness ==
  /\ state.saveCount = 0
  /\ state.restoreCount = 0
  /\ stored = NULL
  /\ LastLogged(state, "State cleared successfully")
  /\ \E c \in calls : /\ c.op = "saveState"
                       /\ c.arg.saveCount = 3
                       /\ c.arg.restoreCount = 4

\* C28 as stated: whenever the in-memory DemoData changes, by a user
\* mutation, a Restore or a Clear, the timestamp of the record in the
\* resulting state is the time of that change.
C28_TimestampAlwaysNow ==
  [][state'.demoData # state.demoData
       => state'.demoData.timestamp = ToISOString(now)]_vars

\* C28: whenever the in-memory DemoData changes by a user mutation or a
\* Clear, the timestamp of the record in the resulting state is the time
\* of that change; when it changes by a Restore, the record is the stored
\* record's demoData, with the timestamp that was saved with it.
C28_TimestampNowOrRestored ==
  [][state'.demoData # state.demoData
       => IF \E c \in calls : GetStateResolves(c)
            THEN /\ stored # NULL
                 /\ "demoData" \in DOMAIN stored
                 /\ state'.demoData = stored.demoData
            ELSE state'.demoData.timestamp = ToISOString(now)]_vars

\* a Restore at one second into the session has put the record of 2023 in
\* memory, timestamp included
C28_Witness ==
  /\ now = TickStep
  /\ state.lastRestoreTime = ToLocaleTimeString(now)
  /\ state.demoData.timestamp = "2023-12-31T23:59:59.000Z"
  /\ stored = OldRecord
  /\ state.demoData = stored.demoData
  /\ LastLogged(state, "State restored successfully")

\* C29: the in-memory DemoData counter is constrained to the inclusive
\* range [-1000, 1000]: it is within the range in every state, and an
\* increment or a decrement of a counter within the range leaves it within
\* the range.
C29_CounterWithinRange ==
  [][/\ state'.demoData.counter >= -1000
     /\ state'.demoData.counter <= 1000
     /\ (incrementCounter \/ decrementCounter)
          => (state.demoData.counter \in -1000..1000
                => state'.demoData.counter \in -1000..1000)]_vars

\* the counter restored at 1000 was incremented once
C29_Witness ==
  /\ state.demoData.counter = 1001
  /\ Len(history.mutations) = 1
  /\ editCount = 1
  /\ state.restoreCount = 4
  /\ state.error = ""

\* the external call of an operation has failed with a failure of the
\* network category, and no call of that kind is in flight
NetworkFailed(op, operation) ==
  /\ state.errorInfo # NULL
  /\ state.errorInfo.type = "network"
  /\ state.errorInfo.operation = operation
  /\ Pending(op) = {}

\* C30: after an external call of Save, Restore or Clear has failed with a
\* network-category failure, the controller retries: the same external
\* call is invoked again, whether or not the user does anything.
C30_NetworkFailureRetried ==
  /\ NetworkFailed("saveState", "saveState")
       ~> (Pending("saveState") # {})
  /\ NetworkFailed("getState", "restoreState")
       ~> (Pending("getState") # {})
  /\ NetworkFailed("clearState", "clearState")
       ~> (Pending("clearState") # {})

\* a Restore failed with 'Failed to fetch', and nothing is left that runs
\* by itself: no call in flight, no timer pending
C30_Witness ==
  /\ NetworkFailed("getState", "restoreState")
  /\ state.error = "Failed to fetch"
  /\ calls = {}
  /\ timers = {}
  /\ now = session.maxNow
  /\ ~state.isLoading

\* C31: the controller never runs Save, Restore and Clear in parallel: in
\* every reachable state at most one external saveState, getState or
\* clearState call started by the controller is unsettled, also when the
\* auto-save trigger fires while an operation of the user is in flight.
C31_OneCallInFlight == Cardinality(calls) <= 1

\* the getState of the Restore button is in flight, and so is the saveState
\* the timer started
C31_Witness ==
  /\ \E c \in Pending("getState") : c.caller = "button"
  /\ \E c \in Pending("saveState") : c.caller = "timer"
  /\ state.isLoading
  /\ Len(history.fires) = 1

\* C32: within a single Save, Restore or Clear, the DemoData, the counters
\* and the display timestamps are not modified by the operation before its
\* external call settles (nor when the call fails), and on settlement all
\* of the operation's updates to them are applied in one step: a Restore
\* that finds a record puts the record's data, its save counter, its
\* restore counter plus one and the restore time in place together, a Clear
\* puts the default data, both counters at 0 and both times at null in
\* place together, a Save raises the counter and sets the save time
\* together.  No state shows only part of a restored or cleared record.
C32_UpdatesAppliedOnSettlement ==
  [][/\ (AttemptStarts \/ componentDidMount) => DataLeftAlone
     /\ \A c \in calls :
          /\ (\E failure \in session.rejections :
                \/ SaveStateRejects(c, failure)
                \/ GetStateRejects(c, failure)
                \/ ClearStateRejects(c, failure)) => DataLeftAlone
          /\ (GetStateResolves(c) /\ stored = NULL) => DataLeftAlone
          /\ (GetStateResolves(c) /\ stored # NULL)
               => /\ state'.demoData =
                       IF "demoData" \in DOMAIN stored
                         THEN stored.demoData ELSE state.demoData
                  /\ state'.saveCount =
                       IF "saveCount" \in DOMAIN stored
                         THEN stored.saveCount ELSE 0
                  /\ state'.restoreCount =
                       IF "restoreCount" \in DOMAIN stored
                         THEN stored.restoreCount + 1 ELSE 1
                  /\ state'.lastRestoreTime = ToLocaleTimeString(now)
                  /\ state'.lastSaveTime = state.lastSaveTime
          /\ ClearStateResolves(c)
               => /\ state'.demoData.userInput = ""
                  /\ state'.demoData.counter = 0
                  /\ state'.demoData.preferences
                       = [autoSave |-> TRUE, showDebugInfo |-> TRUE]
                  /\ state'.demoData.timestamp = ToISOString(now)
                  /\ state'.saveCount = 0 /\ state'.restoreCount = 0
                  /\ state'.lastSaveTime = NullTime
                  /\ state'.lastRestoreTime = NullTime
          /\ SaveStateResolves(c)
               => /\ state'.demoData = state.demoData
                  /\ state'.saveCount = state.saveCount + 1
                  /\ state'.lastSaveTime = ToLocaleTimeString(now)
                  /\ state'.restoreCount = state.restoreCount
                  /\ state'.lastRestoreTime = state.lastRestoreTime]_vars

\* the Restore button's call is in flight one second into the session,
\* after an edit: the record in memory is the edited one, and the counters
\* and the restore time are those of the Restore at mount
C32_Witness ==
  /\ now = TickStep
  /\ \E c \in Pending("getState") : c.caller = "button"
  /\ stored = OldRecord
  /\ state.demoData.counter = OldRecord.demoData.counter + 1
  /\ state.restoreCount = 4
  /\ state.lastRestoreTime = ToLocaleTimeString(0)
  /\ state.isLoading

\* the DemoData produced by the mutation that armed the trigger last
ArmedData ==
  LET arming == {i \in DOMAIN history.mutations :
                   history.mutations[i].autoSave}
  IN  history.mutated[Max(arming)]

\* C33: when the auto-save trigger fires, Save is invoked with the DemoData
\* that is current at firing time: the envelope handed to the service holds
\* the DemoData of the state in which the trigger fires (with the save
\* counter raised by one), not the data as of the moment the trigger was
\* armed.
C33_TimerSavesCurrentData ==
  [][AutoSaveFires
       => \A c \in NewCalls :
            /\ c.op = "saveState"
            /\ c.caller = "timer"
            /\ c.arg.demoData = state.demoData
            /\ c.arg.saveCount = state.saveCount + 1
            /\ c.arg.restoreCount = state.restoreCount]_vars

\* the trigger has fired and its Save is in flight with the data of the
\* mutation made after the arming one (autoSave switched off), which is
\* not the data the arming mutation produced
C33_Witness ==
  /\ Len(history.fires) = 1
  /\ Len(history.mutations) = 2
  /\ \E c \in Pending("saveState") :
       /\ c.caller = "timer"
       /\ c.arg.demoData = history.mutated[2]
       /\ c.arg.demoData # ArmedData
       /\ ~c.arg.demoData.preferences.autoSave

\* C34: an auto-save Save is invoked only while preferences.autoSave is
\* true: the trigger fires only in a state whose autoSave flag is on (a
\* trigger pending when the user switches autoSave off does not lead to a
\* Save), and a mutation that leaves autoSave off arms no trigger.
C34_TimerSavesOnlyWhileEnabled ==
  [][/\ AutoSaveFires => state.demoData.preferences.autoSave
     /\ (history'.mutations # history.mutations
           /\ ~state'.demoData.preferences.autoSave)
          => timers' = timers /\ autoSaveTimeout' = autoSaveTimeout]_vars

\* autoSave was switched off half a second after the edit that armed the
\* trigger; the trigger has fired all the same, and its Save is in flight
C34_Witness ==
  /\ Len(history.mutations) = 2
  /\ history.mutations[1] = [at |-> 0, autoSave |-> TRUE]
  /\ history.mutations[2] = [at |-> DebounceDelay \div 2, autoSave |-> FALSE]
  /\ history.fires = <<DebounceDelay>>
  /\ ~state.demoData.preferences.autoSave
  /\ \E c \in Pending("saveState") : c.caller = "timer"

\* the second half of C34: a mutation that leaves autoSave off arms no
\* trigger
C34_DisabledMutationArmsNothing ==
  [][(history'.mutations # history.mutations
        /\ ~state'.demoData.preferences.autoSave)
       => timers' = timers /\ autoSaveTimeout' = autoSaveTimeout]_vars

\* C35: after every successful Save, once its state update is applied, the
\* local save counter equals the saveCount of the envelope that this Save
\* handed to the external service, whatever other Save, Restore or Clear
\* was interleaved with it.
C35_CounterMatchesEnvelope ==
  [][\A c \in calls :
       SaveStateResolves(c) => state'.saveCount = c.arg.saveCount]_vars

\* two Saves overlapped, both composed their envelope from the counter 0,
\* both have succeeded: the store holds saveCount 1, the local counter is 2
C35_Witness ==
  /\ calls = {}
  /\ stored # NULL
  /\ "saveCount" \in DOMAIN stored
  /\ stored.saveCount = 1
  /\ state.saveCount = 2
  /\ state.restoreCount = 0
  /\ LastLogged(state, "State saved successfully")

\* C36: after a successful Clear, the external saveState is not called
\* again until the user mutates the DemoData or presses Save: while
\* neither has happened since the Clear succeeded, no step other than the
\* press of Save starts a saveState call.  In particular a debounce trigger
\* armed before the Clear does not re-create the persisted state.
C36_NoSaveAfterClear ==
  [][(history.untouched /\ ~ClickSave)
       => \A c \in NewCalls : c.op # "saveState"]_vars

\* the trigger armed before the Clear has fired after it and its Save has
\* succeeded: the store holds a record again, and the user has not touched
\* the data nor pressed Save since the Clear
C36_Witness ==
  /\ history.untouched
  /\ Len(history.mutations) = 1
  /\ history.fires = <<DebounceDelay>>
  /\ stored # NULL
  /\ stored.demoData = DefaultDemoData(0)
  /\ state.saveCount = 1
  /\ calls = {}

\* C37: every envelope that the controller hands to the external saveState
\* has a DemoData that passes the Local Validator (text length at most
\* 1000, counter within [-1000, 1000], parseable timestamp) and a
\* serialized size of at most 10240.
C37_EnvelopesValidAndWithinSize ==
  [][\A c \in NewCalls :
       c.op = "saveState"
         => /\ Len(c.arg.demoData.userInput) <= 1000
            /\ c.arg.demoData.counter >= -1000
            /\ c.arg.demoData.counter <= 1000
            /\ c.arg.demoData.timestamp \notin Unparseable
            /\ Len(JSONStringify(c.arg)) <= 10240]_vars

\* an envelope of exactly 10240 characters, with the counter at the end of
\* its range, is in flight
C37_Witness ==
  \E c \in Pending("saveState") :
    /\ Len(JSONStringify(c.arg)) = 10240
    /\ c.arg.demoData.counter = 1000
    /\ c.arg.saveCount = 3

\* C38: if every external call eventually settles, initialization
\* eventually ends with the initializing flag false, on the success path
\* and on the failure path, and the flag stays false from then on; and
\* whenever no Save, Restore or Clear is in flight the busy flag is false:
\* no operation leaves the busy flag stuck at true.
C38_InitializationEndsAndBusyClears ==
  /\ (phase = "mounted") ~> (~state.isInitializing)
  /\ [][~state.isInitializing => ~state'.isInitializing]_vars
  /\ [](calls = {} => ~state.isLoading)

\* initialization has ended on the failure path: no service, the failure
\* of componentDidMount shown, neither flag set
C38_Witness ==
  /\ phase = "mounted"
  /\ services.pluginState = "absent"
  /\ state.errorInfo # NULL
  /\ state.errorInfo.operation = "componentDidMount"
  /\ ~state.isInitializing
  /\ ~state.isLoading
  /\ calls = {}

\* the n-th mutation is the last one so far, and it left autoSave on
LastMutation(n) ==
  /\ Len(history.mutations) = n
  /\ history.mutations[n].autoSave

\* C39 as stated: with autoSave on, after the last of a burst of mutations
\* a Save is eventually invoked whose envelope holds the DemoData that
\* last mutation produced.
C39_LastMutationSaved ==
  \A n \in 1..EventLoopEdits :
    LastMutation(n)
      ~> \/ Len(history.mutations) > n
         \/ /\ Len(history.mutations) = n
            /\ \E c \in Pending("saveState") :
                 c.arg.demoData = history.mutated[n]

\* C39, amended: with autoSave on, after the last of a burst of mutations
\* the trigger eventually fires, a full delay or more after that mutation,
\* also when an earlier Save was in flight while the mutation happened;
\* the firing trigger invokes Save on the data in memory at that moment,
\* and the Save either hands the service an envelope with that data or
\* hands it nothing and surfaces a failure of saveState.
C39_TriggerFiresAfterLastMutation ==
  /\ \A n \in 1..EventLoopEdits :
       LastMutation(n)
         ~> \/ Len(history.mutations) > n
            \/ /\ Len(history.mutations) = n
               /\ history.fires # <<>>
               /\ history.fires[Len(history.fires)]
                    >= history.mutations[n].at + DebounceDelay
  /\ [][AutoSaveFires
          => \/ /\ NewCalls # {}
                /\ \A c \in NewCalls : /\ c.op = "saveState"
                                       /\ c.arg.demoData = state.demoData
             \/ /\ NewCalls = {}
                /\ state'.errorInfo # NULL
                /\ state'.errorInfo.operation = "saveState"]_vars

\* a Save started by the button was in flight during both mutations of a
\* burst and still is; the trigger has fired a delay after the second
\* mutation, and its Save is in flight with the data of that mutation
C39_Witness ==
  /\ Len(history.mutations) = 2
  /\ history.mutations[2].autoSave
  /\ history.fires # <<>>
  /\ history.fires[Len(history.fires)]
       >= history.mutations[2].at + DebounceDelay
  /\ \E b, c \in Pending("saveState") :
       /\ b.caller = "button"
       /\ b.arg.demoData # history.mutated[1]
       /\ b.arg.demoData # history.mutated[2]
       /\ c.caller = "timer"
       /\ c.arg.demoData = history.mutated[2]

\* C40 as stated: the external saveState, getState and clearState are
\* called only after configure has completed successfully.  When the
\* service is absent or configure throws during initialization, the
\* initial Restore is not attempted, the configured flag stays false and
\* the failure of componentDidMount is surfaced; and no later action
\* starts an external call on the unconfigured service.
C40_NoCallsUnlessConfigured ==
  [][/\ (componentDidMount
           /\ (services.pluginState = "absent" \/ services.configureThrows))
          => /\ NewCalls = {}
             /\ ~state'.isStateConfigured
             /\ state'.errorInfo # NULL
             /\ state'.errorInfo.operation = "componentDidMount"
     /\ NewCalls # {}
          => configurations' # <<>> /\ ~services.configureThrows]_vars

\* configure threw at mount, the failure was dismissed, and a click on an
\* operation button has an external call in flight on the service that
\* was never configured
C40_Witness ==
  /\ services.pluginState = "present"
  /\ services.configureThrows
  /\ ~state.isStateConfigured
  /\ \E c \in calls : c.caller = "button"

====
